---- MODULE Spec2Model ----
(***************************************************************************)
(* A model of pyneatR's batch formatters (nnumber, ndate, nday,            *)
(* ntimestamp) as a state machine: a caller invokes one formatter on a     *)
(* batch with a configuration, the call returns an output batch or raises. *)
(*                                                                         *)
(* Text is modelled as a sequence of one-character strings so that         *)
(* replacement, slicing and concatenation are computed, not assumed.       *)
(* A finite float is sign * m * 10^e with m a natural number; arithmetic   *)
(* on it is exact (round-half-even where the decimal expansion is cut).    *)
(***************************************************************************)
EXTENDS Integers, Sequences, FiniteSets, TLC

VARIABLES pc, op, arg, cfg, out

vars == <<pc, op, arg, cfg, out>>

\* ------------------------------------------------------------------ bounds

\* longest batch built from the pool cells
MaxLen == 3

\* ------------------------------------------------------------------ text

DigitChars == <<"0", "1", "2", "3", "4", "5", "6", "7", "8", "9">>

RECURSIVE Pow10(_)
Pow10(n) == IF n = 0 THEN 1 ELSE 10 * Pow10(n - 1)

\* decimal digits of a natural number, most significant first
RECURSIVE Digits(_)
Digits(n) ==
    IF n < 10 THEN <<DigitChars[n + 1]>>
    ELSE Digits(n \div 10) \o <<DigitChars[(n % 10) + 1]>>

RECURSIVE Zeros(_)
Zeros(n) == IF n <= 0 THEN <<>> ELSE <<"0">> \o Zeros(n - 1)

\* str.replace / np.char.replace for a one-character pattern
RECURSIVE Replace(_, _, _)
Replace(s, old, new) ==
    IF s = <<>> THEN <<>>
    ELSE (IF Head(s) = old THEN new ELSE <<Head(s)>>) \o Replace(Tail(s), old, new)

\* number of occurrences of a character
RECURSIVE CountChar(_, _)
CountChar(s, c) ==
    IF s = <<>> THEN 0
    ELSE (IF Head(s) = c THEN 1 ELSE 0) + CountChar(Tail(s), c)

\* s[from:to] of Python, 0-based, end exclusive
Slice(s, from, to) == SubSeq(s, from + 1, to)

IsPrefixOf(p, s) == Len(p) <= Len(s) /\ SubSeq(s, 1, Len(p)) = p

IsSuffixOf(p, s) == Len(p) <= Len(s) /\ SubSeq(s, Len(s) - Len(p) + 1, Len(s)) = p

\* ------------------------------------------------------------------ text cells

\* a cell of a text batch; a character is a one-element token, and the tokens
\* e_acute / E_ACUTE stand for the non-ASCII letters U+00E9 / U+00C9
StrCell(s) == [k |-> "str", s |-> s]

Lowers ==
    <<"a", "b", "c", "d", "e", "f", "g", "h", "i", "j", "k", "l", "m", "n", "o", "p", "q",
    "r", "s", "t", "u", "v", "w", "x", "y", "z", "e_acute">>

Uppers ==
    <<"A", "B", "C", "D", "E", "F", "G", "H", "I", "J", "K", "L", "M", "N", "O", "P", "Q",
    "R", "S", "T", "U", "V", "W", "X", "Y", "Z", "E_ACUTE">>

\* code-point order of the characters in use
CharOrder ==
    <<"\t", " ", "!", "0", "1", "2", "3", "4", "5", "6", "7", "8", "9", "@", "A", "B", "C",
    "D", "E", "F", "G", "H", "I", "J", "K", "L", "M", "N", "O", "P", "Q", "R", "S", "T", "U",
    "V", "W", "X", "Y", "Z", "a", "b", "c", "d", "e", "f", "g", "h", "i", "j", "k", "l", "m",
    "n", "o", "p", "q", "r", "s", "t", "u", "v", "w", "x", "y", "z", "E_ACUTE", "e_acute">>

IndexIn(s, ch) == IF \E j \in DOMAIN s : s[j] = ch THEN CHOOSE j \in DOMAIN s : s[j] = ch ELSE 0

Ord(ch) == IndexIn(CharOrder, ch)

\* a < b for str
RECURSIVE LexLess(_, _)
LexLess(a, b) ==
    IF b = <<>> THEN FALSE
    ELSE IF a = <<>> THEN TRUE
    ELSE IF Head(a) = Head(b) THEN LexLess(Tail(a), Tail(b))
    ELSE Ord(Head(a)) < Ord(Head(b))

\* ------------------------------------------------------------------ floats

Fin(neg, m, e) == [k |-> "fin", neg |-> neg, m |-> m, e |-> e]
NaN == [k |-> "nan", neg |-> FALSE, m |-> 0, e |-> 0]
PosInf == [k |-> "inf", neg |-> FALSE, m |-> 0, e |-> 0]
NegInf == [k |-> "inf", neg |-> TRUE, m |-> 0, e |-> 0]
\* raw cells that are not floats yet: a missing element and non-numeric text
NoneCell == [k |-> "none", neg |-> FALSE, m |-> 0, e |-> 0]
TextCell == [k |-> "text", neg |-> FALSE, m |-> 0, e |-> 0]

isfinite(v) == v.k = "fin"

NumDigits(n) == Len(Digits(n))

\* floor(log10(|v|)) of a non-zero finite float
FloorLog10(v) == NumDigits(v.m) - 1 + v.e

\* |a| < |b| for non-zero finite floats: by decimal length, then by leading digits
AbsLess(a, b) ==
    LET la == NumDigits(a.m) + a.e
        lb == NumDigits(b.m) + b.e
    IN  IF la # lb THEN la < lb
        ELSE a.m * Pow10(9 - NumDigits(a.m)) < b.m * Pow10(9 - NumDigits(b.m))

\* position used by sorting: -inf, negatives, zero, positives, +inf, then nan
\* (numpy sorts nan and NaT last); instants sort by their epoch count, text
\* by code points
Class(v) ==
    CASE v.k = "inf" /\ v.neg -> 0
      [] v.k = "fin" /\ v.neg -> 1
      [] v.k = "fin" /\ v.m = 0 -> 2
      [] v.k = "fin" -> 3
      [] v.k = "inf" -> 4
      [] v.k = "nan" -> 5
      [] v.k = "none" -> 6
      [] v.k = "text" -> 7
      [] v.k = "at" -> 8
      [] v.k = "nat" -> 9
      [] v.k = "str" -> 11
      [] OTHER -> 10

Less(a, b) ==
    IF Class(a) # Class(b) THEN Class(a) < Class(b)
    ELSE CASE Class(a) = 1 -> AbsLess(b, a)
           [] Class(a) = 3 -> AbsLess(a, b)
           [] Class(a) = 8 -> a.t < b.t
           [] Class(a) = 11 -> LexLess(a.s, b.s)
           [] OTHER -> FALSE

\* ------------------------------------------------------------------ np.unique

SetOf(s) == {s[i] : i \in DOMAIN s}

RECURSIVE SortSet(_)
SortSet(S) ==
    IF S = {} THEN <<>>
    ELSE LET mn == CHOOSE x \in S : \A y \in S \ {x} : Less(x, y)
         IN  <<mn>> \o SortSet(S \ {mn})

\* np.unique(x): the sorted distinct values
Unique(x) == SortSet(SetOf(x))

IndexOf(s, v) == CHOOSE j \in DOMAIN s : s[j] = v /\ \A i \in 1..(j - 1) : s[i] # v

\* an inverse map into the distinct values in order of first appearance,
\* although the distinct values are sorted
InverseFirstSeen(x) ==
    [i \in DOMAIN x |->
        Cardinality({x[j] : j \in 1..(CHOOSE j \in DOMAIN x :
                                          x[j] = x[i] /\ \A h \in 1..(j - 1) : x[h] # x[i])})]

\* np.unique(x, return_inverse=True)[1]: per position, the index in Unique(x)
Inverse(x) ==
    LET u == Unique(x)
    IN  [i \in DOMAIN x |-> IndexOf(u, x[i])]

\* fancy indexing a[idx]
Take(a, idx) == [i \in DOMAIN idx |-> a[idx[i]]]

\* ------------------------------------------------------------------ results

Ok(val) == [status |-> "ok", msg |-> "", val |-> val]
Raise(status, msg) == [status |-> status, msg |-> msg, val |-> <<>>]
NoResult == [status |-> "none", msg |-> "", val |-> <<>>]

\* ------------------------------------------------------------------ numbers.py

\* unit keywords and labels, as text
AUTO == <<"a", "u", "t", "o">>
CUSTOM == <<"c", "u", "s", "t", "o", "m">>

labels == << <<>>, <<"K">>, <<"M", "n">>, <<"B", "n">>, <<"T", "n">> >>

\* factors 1, 1e-3, 1e-6, 1e-9, 1e-12 as powers of ten
factors == <<0, -3, -6, -9, -12>>

\* a missing element read as zero
AsFloatZero(c) == IF c.k = "none" THEN Fin(FALSE, 0, 0) ELSE c

\* np.asanyarray(number, dtype=float), element-wise: None becomes nan
AsFloat(c) == IF c.k = "none" THEN NaN ELSE c

\* no text converts: neither the opaque text cell nor any of the texts given to
\* nstring is the spelling of a number
ConvertsToFloat(number) == \A i \in DOMAIN number : number[i].k \notin {"text", "str"}

clip(n, lo, hi) == IF n < lo THEN lo ELSE IF n > hi THEN hi ELSE n

\* the x != 0 & isfinite(x) mask
nonzero(v) == isfinite(v) /\ v.m # 0

\* the bucket clipped one short of the last label
mxShortLimit(v) == clip(FloorLog10(v) \div 3, 0, Len(labels) - 2)

\* np.clip(np.floor(np.log10(np.abs(v)) / 3).astype(int), 0, len(labels) - 1)
\* (floor(log10(|v|) / 3) = floor(floor(log10(|v|)) / 3))
mx(v) == clip(FloorLog10(v) \div 3, 0, Len(labels) - 1)

\* np.bincount(mx)[b] over the masked elements of x
bincount(x, b) == Cardinality({i \in DOMAIN x : nonzero(x[i]) /\ mx(x[i]) = b})

\* the last index holding the maximum
argmaxLast(x) ==
    CHOOSE b \in 0..(Len(labels) - 1) :
        /\ \A c \in 0..(Len(labels) - 1) : bincount(x, c) <= bincount(x, b)
        /\ \A c \in (b + 1)..(Len(labels) - 1) : bincount(x, c) < bincount(x, b)

\* np.argmax(counts): the first index holding the maximum
argmax(x) ==
    CHOOSE b \in 0..(Len(labels) - 1) :
        /\ \A c \in 0..(Len(labels) - 1) : bincount(x, c) <= bincount(x, b)
        /\ \A c \in 0..(b - 1) : bincount(x, c) < bincount(x, b)

mode_mx(x_flat) ==
    IF \A i \in DOMAIN x_flat : ~nonzero(x_flat[i]) THEN 0 ELSE argmax(x_flat)

\* labels.index(unit), 0-based
labels_index(unit) == IndexOf(labels, unit) - 1

unit_in_labels(unit) == \E j \in DOMAIN labels : labels[j] = unit

\* uvals * scales for one value: nan and inf are absorbing, zero stays zero
Scale(v, idx) ==
    IF isfinite(v) /\ v.m # 0 THEN [v EXCEPT !.e = @ + factors[idx + 1]] ELSE v

\* round-half-even of m * 10^k (k < 0) to an integer
RoundScaled(m, k) ==
    IF -k > 9 THEN 0
    ELSE LET p == Pow10(-k)
             q == m \div p
             r == m % p
         IN  IF 2 * r > p \/ (2 * r = p /\ q % 2 = 1) THEN q + 1 ELSE q

\* digits of round(|v| * 10^d)
ScaledDigits(v, d) ==
    LET k == v.e + d
    IN  IF v.m = 0 THEN <<"0">>
        ELSE IF k >= 0 THEN Digits(v.m) \o Zeros(k)
        ELSE Digits(RoundScaled(v.m, k))

\* thousands grouping of an integer digit string with ','
RECURSIVE Group(_)
Group(ds) ==
    IF Len(ds) <= 3 THEN ds
    ELSE Group(SubSeq(ds, 1, Len(ds) - 3)) \o <<",">> \o SubSeq(ds, Len(ds) - 2, Len(ds))

\* "{:,.<digits>f}".format(v)
FormatFixed(v, digits) ==
    CASE v.k = "nan" -> <<"n", "a", "n">>
      [] v.k = "inf" -> (IF v.neg THEN <<"-">> ELSE <<>>) \o <<"i", "n", "f">>
      [] OTHER ->
           LET ds == ScaledDigits(v, digits)
               padded == Zeros(digits + 1 - Len(ds)) \o ds
               ip == SubSeq(padded, 1, Len(padded) - digits)
               fp == SubSeq(padded, Len(padded) - digits + 1, Len(padded))
           IN  (IF v.neg THEN <<"-">> ELSE <<>>)
                   \o Group(ip)
                   \o (IF digits > 0 THEN <<".">> \o fp ELSE <<>>)

\* the separator replaced without protecting the decimal point
SwapSeparatorNaive(s, thousand_separator) ==
    IF thousand_separator # <<",">> THEN Replace(s, ",", thousand_separator) ELSE s

\* the thousand_separator swap applied to one formatted number
SwapSeparator(s, thousand_separator) ==
    IF thousand_separator # <<",">>
    THEN IF thousand_separator = <<".">>
         THEN Replace(Replace(Replace(s, ",", <<"X">>), ".", <<",">>), "X", <<".">>)
         ELSE Replace(s, ",", thousand_separator)
    ELSE s

\* utils._sandwich: prefix + x + suffix
_sandwich(x, prefix, suffix) == prefix \o x \o suffix

\* the bucket taken per value even when the unit is fixed
UnitIndexPerValue(v, fixed_unit, final_unit_idx) == IF nonzero(v) THEN mx(v) ELSE 0

\* indices[j]: the bucket of one distinct value
UnitIndex(v, fixed_unit, final_unit_idx) ==
    IF fixed_unit THEN final_unit_idx
    ELSE IF nonzero(v) THEN mx(v) ELSE 0

\* the unit suffix of one distinct value; any_unit is np.any(has_unit)
AddUnit(s, idx, any_unit) ==
    LET has_unit == labels[idx + 1] # <<>>
    IN  IF any_unit THEN s \o (IF has_unit THEN <<" ">> \o labels[idx + 1] ELSE <<>>)
        ELSE s

\* wrapping only when both prefix and suffix are given
WrapWhenBoth(s, prefix, suffix) ==
    IF prefix # <<>> /\ suffix # <<>> THEN _sandwich(s, prefix, suffix) ELSE s

\* prefix/suffix wrapping of one formatted value
Wrap(s, prefix, suffix) ==
    IF prefix # <<>> \/ suffix # <<>> THEN _sandwich(s, prefix, suffix) ELSE s

\* formatted_uvals[inverse]
Scatter(formatted_uvals, inverse) == Take(formatted_uvals, inverse)

\* the body of nnumber, as called on the array it receives
nnumber_body(number, c) ==
    IF ~ConvertsToFloat(number)
    THEN Raise("ValueError", "could not convert string to float")
    ELSE IF c.unit # AUTO /\ c.unit # CUSTOM /\ ~unit_in_labels(c.unit)
    THEN Raise("ValueError", "Invalid unit")
    ELSE
      LET x_flat == [i \in DOMAIN number |-> AsFloat(number[i])]
          fixed_unit == c.unit # CUSTOM
          final_unit_idx ==
              IF c.unit = AUTO THEN mode_mx(x_flat)
              ELSE IF c.unit = CUSTOM THEN 0
              ELSE labels_index(c.unit)
          uvals == Unique(x_flat)
          inverse == Inverse(x_flat)
          indices == [j \in DOMAIN uvals |->
                         UnitIndex(uvals[j], fixed_unit, final_unit_idx)]
          scaled_vals == [j \in DOMAIN uvals |-> Scale(uvals[j], indices[j])]
          formatted_list == [j \in DOMAIN uvals |-> FormatFixed(scaled_vals[j], c.digits)]
          swapped == [j \in DOMAIN uvals |->
                         SwapSeparator(formatted_list[j], c.thousand_separator)]
          any_unit == \E j \in DOMAIN uvals : labels[indices[j] + 1] # <<>>
          formatted_arr == [j \in DOMAIN uvals |-> AddUnit(swapped[j], indices[j], any_unit)]
          formatted_uvals == [j \in DOMAIN uvals |->
                                 Wrap(formatted_arr[j], c.prefix, c.suffix)]
      IN  Ok(Scatter(formatted_uvals, inverse))

\* "{:.<digits>f}".format(v): fixed decimals without grouping
FormatPlain(v, digits) ==
    CASE v.k = "nan" -> <<"n", "a", "n">>
      [] v.k = "inf" -> (IF v.neg THEN <<"-">> ELSE <<>>) \o <<"i", "n", "f">>
      [] OTHER ->
           LET ds == ScaledDigits(v, digits)
               padded == Zeros(digits + 1 - Len(ds)) \o ds
               ip == SubSeq(padded, 1, Len(padded) - digits)
               fp == SubSeq(padded, Len(padded) - digits + 1, Len(padded))
           IN  (IF v.neg THEN <<"-">> ELSE <<>>)
                   \o ip
                   \o (IF digits > 0 THEN <<".">> \o fp ELSE <<>>)

\* x * 100 and x / 100.0: nan and inf are absorbing, zero stays zero
times100(v) == IF isfinite(v) /\ v.m # 0 THEN [v EXCEPT !.e = @ + 2] ELSE v
div100(v) == IF isfinite(v) /\ v.m # 0 THEN [v EXCEPT !.e = @ - 2] ELSE v

\* np.abs
abs(v) == [v EXCEPT !.neg = FALSE]

\* v >= 0 in the place of v > 0
ge0(v) == (v.k = "fin" /\ ~v.neg) \/ (v.k = "inf" /\ ~v.neg)

\* the comparisons v > 0, v == 0, v >= 1, v <= -1; all false for nan
gt0(v) == (v.k = "fin" /\ ~v.neg /\ v.m # 0) \/ (v.k = "inf" /\ ~v.neg)
eq0(v) == v.k = "fin" /\ v.m = 0

\* v > 1 in the place of v >= 1
gt1(v) ==
    \/ v.k = "fin" /\ ~v.neg /\ v.m # 0 /\ FloorLog10(v) >= 0 /\ AbsLess(Fin(FALSE, 1, 0), v)
    \/ v.k = "inf" /\ ~v.neg

ge1(v) == (v.k = "fin" /\ ~v.neg /\ v.m # 0 /\ FloorLog10(v) >= 0) \/ (v.k = "inf" /\ ~v.neg)
le_m1(v) == (v.k = "fin" /\ v.neg /\ v.m # 0 /\ FloorLog10(v) >= 0) \/ (v.k = "inf" /\ v.neg)

\* the core percent string of one value x on the percentage scale
s_arr(x, digits, show_plus_sign) ==
    (IF show_plus_sign /\ gt0(x) THEN <<"+">> ELSE <<>>) \o FormatPlain(x, digits) \o <<"%">>

\* f_lbl: the growth-factor label of one value x on the percentage scale
f_lbl(x) ==
    LET gtemp == div100(x)
        gtemp_abs == abs(gtemp)
        g_fmt == FormatPlain(gtemp_abs, 1)
        growth_lbl == <<" ", "(">> \o g_fmt \o <<"x", " ", "G", "r", "o", "w", "t", "h", ")">>
        drop_lbl == <<" ", "(">> \o g_fmt \o <<"x", " ", "D", "r", "o", "p", ")">>
        small0 == IF gt0(gtemp) THEN <<" ", "(", "G", "r", "o", "w", "t", "h", ")">> ELSE <<" ", "(", "D", "r", "o", "p", ")">>
        small_lbl == IF eq0(gtemp) THEN <<" ", "(", "F", "l", "a", "t", ")">> ELSE small0
        f0 == IF le_m1(gtemp) THEN drop_lbl ELSE small_lbl
    IN  IF ge1(gtemp) THEN growth_lbl ELSE f0

\* f"{b:+.0f}"
FormatPlus(b) == (IF b.neg THEN <<>> ELSE <<"+">>) \o FormatPlain(b, 0)

\* the basis points with a sign for zero as well
bps_lblSignedZero(x) == <<" ", "(">> \o FormatPlus(times100(x)) \o <<" ", "b", "p", "s", ")">>

\* bps_lbl: the basis-points label of one value x on the percentage scale
bps_lbl(x) ==
    LET bps == times100(x)
    IN  <<" ", "(">> \o (IF ~eq0(bps) THEN FormatPlus(bps) ELSE <<"0">>) \o <<" ", "b", "p", "s", ")">>

\* extras_arr of one value: the growth label, then the bps label added twice
extras_arr(x, show_growth_factor, show_bps) ==
    (IF show_growth_factor THEN f_lbl(x) ELSE <<>>)
        \o (IF show_bps THEN bps_lbl(x) \o bps_lbl(x) ELSE <<>>)

\* the body of npercent, as called on the array it receives
npercent_body(percent, c) ==
    IF ~ConvertsToFloat(percent)
    THEN Raise("ValueError", "could not convert string to float")
    ELSE
      LET x == [i \in DOMAIN percent |->
                   IF c.is_ratio THEN times100(AsFloat(percent[i])) ELSE AsFloat(percent[i])]
      IN  IF Len(x) = 0 THEN Ok(<<>>)
          ELSE Ok([i \in DOMAIN x |->
                      s_arr(x[i], c.digits, c.show_plus_sign)
                          \o (IF c.show_growth_factor \/ c.show_bps
                              THEN extras_arr(x[i], c.show_growth_factor, c.show_bps)
                              ELSE <<>>)])

\* ------------------------------------------------------------------ dates.py

\* a cell of a date/timestamp batch: an instant (epoch days for dates, epoch
\* seconds for timestamps), a missing value (None / NaT), or unparseable text
At(t) == [k |-> "at", t |-> t]
NaT == [k |-> "nat", t |-> 0]
BadText == [k |-> "bad", t |-> 0]

NAT_STR == <<"N", "a", "T">>

\* astype('datetime64[..]') of the whole array succeeds unless an element is
\* unparseable text; on failure the array keeps a non-datetime dtype
IsDatetime64(date) == \A i \in DOMAIN date : date[i].k # "bad"

\* np.full(shape, "NaT", dtype=object)
FullNaT(date) == [i \in DOMAIN date |-> NAT_STR]

\* ~np.isnat(date)
mask(date) == [i \in DOMAIN date |-> date[i].k = "at"]

\* civil date of an epoch day (proleptic Gregorian), as np.datetime_as_string
Civil(days) ==
    LET z == days + 719468
        era == z \div 146097
        doe == z - era * 146097
        yoe == (doe - doe \div 1460 + doe \div 36524 - doe \div 146096) \div 365
        doy == doe - (365 * yoe + yoe \div 4 - yoe \div 100)
        mp == (5 * doy + 2) \div 153
        d == doy - (153 * mp + 2) \div 5 + 1
        m == IF mp < 10 THEN mp + 3 ELSE mp - 9
        y == yoe + era * 400 + (IF m <= 2 THEN 1 ELSE 0)
    IN  [y |-> y, m |-> m, d |-> d]

\* f"{n:0<w>d}" for a natural number
ZeroPad(n, w) == Zeros(w - NumDigits(n)) \o Digits(n)

\* np.datetime_as_string(v, unit='D'): "YYYY-MM-DD"
IsoDate(days) ==
    LET c == Civil(days)
    IN  ZeroPad(c.y, 4) \o <<"-">> \o ZeroPad(c.m, 2) \o <<"-">> \o ZeroPad(c.d, 2)

\* np.datetime_as_string(v, unit='s'): "YYYY-MM-DDTHH:MM:SS"
IsoTimestamp(secs) ==
    LET sod == secs % 86400
    IN  IsoDate(secs \div 86400) \o <<"T">>
            \o ZeroPad(sod \div 3600, 2) \o <<":">>
            \o ZeroPad((sod % 3600) \div 60, 2) \o <<":">>
            \o ZeroPad(sod % 60, 2)

DigitValue(ch) == (CHOOSE j \in DOMAIN DigitChars : DigitChars[j] = ch) - 1

\* int("..") of a digit string
RECURSIVE ParseInt(_)
ParseInt(s) ==
    IF s = <<>> THEN 0
    ELSE 10 * ParseInt(SubSeq(s, 1, Len(s) - 1)) + DigitValue(s[Len(s)])

months_full ==
    << <<>>, <<"J", "a", "n">>, <<"F", "e", "b">>, <<"M", "a", "r">>,
       <<"A", "p", "r">>, <<"M", "a", "y">>, <<"J", "u", "n">>, <<"J", "u", "l">>,
       <<"A", "u", "g">>, <<"S", "e", "p">>, <<"O", "c", "t">>, <<"N", "o", "v">>,
       <<"D", "e", "c">> >>

weekday_labels ==
    << <<"M", "o", "n">>, <<"T", "u", "e">>, <<"W", "e", "d">>, <<"T", "h", "u">>,
       <<"F", "r", "i">>, <<"S", "a", "t">>, <<"S", "u", "n">> >>

\* the weekday with the table entered one day late
_get_weekday_name_vecLate(days) == weekday_labels[((days + 4) % 7) + 1]

\* _get_weekday_name_vec for one epoch day
_get_weekday_name_vec(days) == weekday_labels[((days + 3) % 7) + 1]

\* a result array initialised with empty strings
MaskedBlank(date, s) == [i \in DOMAIN date |-> IF mask(date)[i] THEN s[i] ELSE <<>>]

\* result[mask] = s: valid positions take their string, the others keep "NaT"
Masked(date, s) == [i \in DOMAIN date |-> IF mask(date)[i] THEN s[i] ELSE NAT_STR]

\* the alias with a window of one week less a day on both sides
aliasWeek(diff) ==
    CASE diff = 0 -> <<"T", "o", "d", "a", "y", ",", " ">>
      [] diff = 1 -> <<"Y", "e", "s", "t", "e", "r", "d", "a", "y", ",", " ">>
      [] diff = -1 -> <<"T", "o", "m", "o", "r", "r", "o", "w", ",", " ">>
      [] diff >= 2 /\ diff <= 7 -> <<"L", "a", "s", "t", " ">>
      [] diff >= -7 /\ diff <= -2 -> <<"C", "o", "m", "i", "n", "g", " ">>
      [] OTHER -> <<>>

\* the relative-day alias of one diff = today - date, by the successive
\* masked assignments of nday
alias(diff) ==
    LET a0 == <<>>
        a1 == IF diff >= 2 /\ diff <= 8 THEN <<"L", "a", "s", "t", " ">> ELSE a0
        a2 == IF diff = 1
              THEN <<"Y", "e", "s", "t", "e", "r", "d", "a", "y", ",", " ">> ELSE a1
        a3 == IF diff = 0 THEN <<"T", "o", "d", "a", "y", ",", " ">> ELSE a2
        a4 == IF diff = -1
              THEN <<"T", "o", "m", "o", "r", "r", "o", "w", ",", " ">> ELSE a3
        a5 == IF diff >= -8 /\ diff <= -2
              THEN <<"C", "o", "m", "i", "n", "g", " ">> ELSE a4
    IN  a5

\* the string nday builds for one valid date
DayString(days, show_relative_day, today_day) ==
    LET day_str == _get_weekday_name_vec(days)
    IN  IF show_relative_day THEN alias(today_day - days) \o day_str ELSE day_str

\* nday with the clock read again for every element after the first
nday_bodyRereads(date, c) ==
    IF Len(date) = 0 THEN Ok(<<>>)
    ELSE IF ~IsDatetime64(date) THEN Ok(FullNaT(date))
    ELSE Ok(Masked(date, [i \in DOMAIN date |->
                DayString(date[i].t, c.show_relative_day,
                          c.today + (IF i > 1 THEN c.elapsed ELSE 0))]))

\* the body of nday; c.today is the value np.datetime64('today') returns on
\* line 70, the only place the clock is read; c.elapsed, the days the clock
\* advances while the call runs, is never looked at
nday_body(date, c) ==
    IF Len(date) = 0 THEN Ok(<<>>)
    ELSE IF ~IsDatetime64(date) THEN Ok(FullNaT(date))
    ELSE Ok(Masked(date, [i \in DOMAIN date |->
                DayString(date[i].t, c.show_relative_day, c.today)]))

\* the compact form followed by the weekday when show_weekday is set
DateStringWeekdayAlways(days, show_weekday, show_month_year) ==
    LET iso == IsoDate(days)
        mon_str == months_full[ParseInt(Slice(iso, 5, 7)) + 1]
        s == IF show_month_year
             THEN mon_str \o <<"'">> \o Slice(iso, 2, 4)
             ELSE mon_str \o <<" ">> \o Slice(iso, 8, 10) \o <<",", " ">> \o Slice(iso, 0, 4)
    IN  IF show_weekday
        THEN s \o <<" ", "(">> \o _get_weekday_name_vec(days) \o <<")">>
        ELSE s

\* the string ndate builds for one valid date
DateString(days, show_weekday, show_month_year) ==
    LET iso == IsoDate(days)
        mm == ParseInt(Slice(iso, 5, 7))
        mon_str == months_full[mm + 1]
    IN  IF show_month_year
        THEN mon_str \o <<"'">> \o Slice(iso, 2, 4)
        ELSE LET s == mon_str \o <<" ">> \o Slice(iso, 8, 10) \o <<",", " ">>
                          \o Slice(iso, 0, 4)
             IN  IF show_weekday
                 THEN s \o <<" ", "(">> \o _get_weekday_name_vec(days) \o <<")">>
                 ELSE s

\* the body of ndate
ndate_body(date, c) ==
    IF Len(date) = 0 THEN Ok(<<>>)
    ELSE IF ~IsDatetime64(date) THEN Ok(FullNaT(date))
    ELSE Ok(Masked(date, [i \in DOMAIN date |->
                DateString(date[i].t, c.show_weekday, c.show_month_year)]))

hours_labels == [i \in 1..13 |-> ZeroPad(i - 1, 2)]

\* the hour on a clock face that starts at 0
hh_12Mod(hh_int) == hh_int % 12

\* hh_12: 0 becomes 12, hours above 12 lose 12
hh_12(hh_int) ==
    LET h1 == IF hh_int = 0 THEN 12 ELSE hh_int
    IN  IF h1 > 12 THEN h1 - 12 ELSE h1

\* a marker for the afternoon only
ampmBlankAM(is_pm) == IF is_pm THEN <<" ", "P", "M">> ELSE <<>>

\* np.where(is_pm, " PM", " AM")
ampm_arr(is_pm) == IF is_pm THEN <<" ", "P", "M">> ELSE <<" ", "A", "M">>

\* the string ntimestamp builds for one valid timestamp
TimestampString(secs, c) ==
    LET iso == IsoTimestamp(secs)
        mm == ParseInt(Slice(iso, 5, 7))
        d_str == months_full[mm + 1] \o <<" ">> \o Slice(iso, 8, 10) \o <<",", " ">>
                     \o Slice(iso, 0, 4) \o <<" ">>
        hh_str == Slice(iso, 11, 13)
        mm_str == Slice(iso, 14, 16)
        ss_str == Slice(iso, 17, 19)
        hh_int == ParseInt(hh_str)
        is_pm == hh_int >= 12
        hh_12_str == hours_labels[hh_12(hh_int) + 1]
        combined ==
            (IF c.show_date THEN d_str ELSE <<>>)
                \o (IF c.show_hours THEN hh_12_str \o <<"H">> ELSE <<>>)
                \o (IF c.show_minutes THEN <<" ">> \o mm_str \o <<"M">> ELSE <<>>)
                \o (IF c.show_seconds THEN <<" ">> \o ss_str \o <<"S">> ELSE <<>>)
                \o ampm_arr(is_pm)
    IN  IF c.show_weekday
        THEN combined \o <<" ", "(">> \o _get_weekday_name_vec(secs \div 86400) \o <<")">>
        ELSE combined

\* the body of ntimestamp
ntimestamp_body(timestamp, c) ==
    IF Len(timestamp) = 0 THEN Ok(<<>>)
    ELSE IF ~IsDatetime64(timestamp) THEN Ok(FullNaT(timestamp))
    ELSE Ok(Masked(timestamp, [i \in DOMAIN timestamp |->
                TimestampString(timestamp[i].t, c)]))

\* ------------------------------------------------------------------ strings.py

\* case keywords
LOWER == <<"l", "o", "w", "e", "r">>
UPPER == <<"u", "p", "p", "e", "r">>
TITLE == <<"t", "i", "t", "l", "e">>
START == <<"s", "t", "a", "r", "t">>
INITCAP == <<"i", "n", "i", "t", "c", "a", "p">>

lower(ch) == IF IndexIn(Uppers, ch) > 0 THEN Lowers[IndexIn(Uppers, ch)] ELSE ch
upper(ch) == IF IndexIn(Lowers, ch) > 0 THEN Uppers[IndexIn(Lowers, ch)] ELSE ch
isalpha(ch) == IndexIn(Lowers, ch) > 0 \/ IndexIn(Uppers, ch) > 0
isdigit(ch) == IndexIn(DigitChars, ch) > 0
\* \s
isspace(ch) == ch \in {" ", "\t"}
\* [a-zA-Z]: the ASCII letters are the first 26 of each table
isasciialpha(ch) ==
    (IndexIn(Lowers, ch) \in 1..26) \/ (IndexIn(Uppers, ch) \in 1..26)
\* [\x20-\x7E]
isprintable(ch) == ch # "\t" /\ ch # "e_acute" /\ ch # "E_ACUTE"

\* str.lower, str.upper, str.title, str.capitalize
str_lower(s) == [i \in DOMAIN s |-> lower(s[i])]
str_upper(s) == [i \in DOMAIN s |-> upper(s[i])]
str_title(s) ==
    [i \in DOMAIN s |->
        IF i = 1 \/ ~isalpha(s[i - 1]) THEN upper(s[i]) ELSE lower(s[i])]
str_capitalize(s) == [i \in DOMAIN s |-> IF i = 1 THEN upper(s[i]) ELSE lower(s[i])]

\* str.lstrip / str.rstrip / str.strip of whitespace
RECURSIVE lstrip(_)
lstrip(s) == IF s # <<>> /\ isspace(Head(s)) THEN lstrip(Tail(s)) ELSE s
RECURSIVE rstrip(_)
rstrip(s) ==
    IF s # <<>> /\ isspace(s[Len(s)]) THEN rstrip(SubSeq(s, 1, Len(s) - 1)) ELSE s
strip(s) == rstrip(lstrip(s))

\* the first word of a text without leading whitespace, and what follows it
RECURSIVE FirstWord(_)
FirstWord(s) ==
    IF s = <<>> \/ isspace(Head(s)) THEN <<>> ELSE <<Head(s)>> \o FirstWord(Tail(s))

\* str.split(): the whitespace-separated words
RECURSIVE split(_)
split(s) ==
    LET t == lstrip(s)
        w == FirstWord(t)
    IN  IF t = <<>> THEN <<>> ELSE <<w>> \o split(SubSeq(t, Len(w) + 1, Len(t)))

\* ' '.join(words)
RECURSIVE join(_)
join(words) ==
    IF words = <<>> THEN <<>>
    ELSE IF Len(words) = 1 THEN words[1]
    ELSE words[1] \o <<" ">> \o join(Tail(words))

_string_start_case(text) ==
    LET words == split(text)
    IN  join([i \in DOMAIN words |-> str_capitalize(words[i])])

\* an unknown keyword falls through to the final return of the text itself
_convert_case_single(text, case) ==
    CASE case = LOWER -> str_lower(text)
      [] case = UPPER -> str_upper(text)
      [] case = TITLE -> str_title(text)
      [] case = START -> _string_start_case(text)
      [] case = INITCAP -> str_capitalize(text)
      [] OTHER -> text

\* clean_text_pattern.sub("", s): drop what is not [a-zA-Z0-9\s] or whitelisted
clean_text(s, keep_chars) ==
    SelectSeq(s, LAMBDA ch : isasciialpha(ch) \/ isdigit(ch) \/ isspace(ch)
                                \/ (\E j \in DOMAIN keep_chars : keep_chars[j] = ch))

\* non_english_pattern.sub("", s)
non_english(s) == SelectSeq(s, isprintable)

\* space_pattern.sub(" ", s): every run of whitespace becomes one space
RECURSIVE space_sub(_)
space_sub(s) ==
    IF s = <<>> THEN <<>>
    ELSE IF isspace(Head(s)) THEN <<" ">> \o space_sub(lstrip(s))
    ELSE <<Head(s)>> \o space_sub(Tail(s))

\* str(s) of one element of the batch
str(cell) ==
    CASE cell.k = "str" -> cell.s
      [] cell.k = "none" -> <<"N", "o", "n", "e">>
      [] cell.k = "text" -> <<"a", "b", "c">>
      [] cell.k = "fin" /\ cell.e >= 0 ->
            (IF cell.neg THEN <<"-">> ELSE <<>>) \o Digits(cell.m) \o
                (IF cell.m = 0 THEN <<>> ELSE Zeros(cell.e))
      [] OTHER -> FormatPlain(cell, IF cell.k = "fin" THEN -cell.e ELSE 0)

\* one pass of the loop of nstring over an element
nstring_single(cell, c) ==
    LET s0 == str(cell)
        s1 == IF c.case # <<>> THEN _convert_case_single(s0, c.case) ELSE s0
        s2 == IF c.remove_specials THEN clean_text(s1, c.keep_chars) ELSE s1
        s3 == IF c.ascii_only THEN non_english(s2) ELSE s2
    IN  strip(space_sub(s3))

\* the body of nstring
nstring_body(text, c) == Ok([i \in DOMAIN text |-> nstring_single(text[i], c)])

\* ------------------------------------------------------------------ utils.py
\* utils._unique_optimization: format the distinct values once (formatted is
\* the decorated function's result on Unique(x)), scatter the results back
\* through the inverse map
unique_optimization(formatted, x) ==
    IF formatted.status = "ok" THEN Ok(Take(formatted.val, Inverse(x))) ELSE formatted

\* the exported (decorated) functions
nnumber(number, c) == unique_optimization(nnumber_body(Unique(number), c), number)
nday(date, c) == unique_optimization(nday_body(Unique(date), c), date)
ndate(date, c) == unique_optimization(ndate_body(Unique(date), c), date)
ntimestamp(timestamp, c) == unique_optimization(ntimestamp_body(Unique(timestamp), c), timestamp)
npercent(percent, c) == unique_optimization(npercent_body(Unique(percent), c), percent)
nstring(text, c) == unique_optimization(nstring_body(Unique(text), c), text)

\* ------------------------------------------------------------------ f.py

\* the dtypes an input of f arrives with: a Python list, whose dtype
\* np.asanyarray infers, or a datetime64 array in days or seconds
LIST == "list"
DT_D == "datetime64[D]"
DT_S == "datetime64[s]"

\* np.issubdtype(np.asanyarray(x).dtype, np.number) for a list: every element
\* is an int or a float; a None or a str among them makes the array object or text
is_number_dtype(x) == \A i \in DOMAIN x : x[i].k \in {"fin", "nan", "inf"}

_infer_type(x, dtype) ==
    IF dtype = DT_D THEN "date"
    ELSE IF dtype = DT_S THEN "ts"
    ELSE IF is_number_dtype(x) THEN "number"
    ELSE "string"

\* np.char.partition(res, " (") rejoined with " IST" after the first part
Find(s, sep) ==
    LET at(j) == SubSeq(s, j, j + Len(sep) - 1) = sep
        starts == 1..(Len(s) - Len(sep) + 1)
    IN  IF \E j \in starts : at(j)
        THEN CHOOSE j \in starts : at(j) /\ \A h \in 1..(j - 1) : ~at(h)
        ELSE 0

add_timezone(s) ==
    LET j == Find(s, <<" ", "(">>)
    IN  IF j = 0 THEN s \o <<" ", "I", "S", "T">>
        ELSE SubSeq(s, 1, j - 1) \o <<" ", "I", "S", "T">> \o SubSeq(s, j, Len(s))

\* parts = np.char.partition(res, " ("); the parts rejoined around " IST"
partition_join(res) ==
    IF res.status = "ok" THEN Ok([i \in DOMAIN res.val |-> add_timezone(res.val[i])])
    ELSE res

\* the 'ts' branch with its default parameters
f_ts(x) ==
    partition_join(ntimestamp(x, [show_weekday |-> TRUE, show_date |-> TRUE, show_hours |-> TRUE,
                                  show_minutes |-> TRUE, show_seconds |-> TRUE,
                                  show_timezone |-> TRUE]))

\* res.rfind(" ("): the position of the last occurrence (0 when absent)
RFind(s, sep) ==
    LET at(j) == SubSeq(s, j, j + Len(sep) - 1) = sep
        starts == 1..(Len(s) - Len(sep) + 1)
    IN  IF \E j \in starts : at(j)
        THEN CHOOSE j \in starts : at(j) /\ \A h \in (j + 1)..(Len(s)) : h \in starts => ~at(h)
        ELSE 0

\* the str branch: res[:idx] + " IST" + res[idx:] when idx != -1, res otherwise
rfind_join(s, idx) ==
    IF idx = 0 THEN s
    ELSE SubSeq(s, 1, idx - 1) \o <<" ", "I", "S", "T">> \o SubSeq(s, idx, Len(s))

\* a scalar goes through a formatter as a batch of one and comes out unwrapped:
\* the result is the string itself, not an array holding it
unwrap(res, scalar) ==
    IF scalar /\ res.status = "ok" THEN Ok(res.val[1]) ELSE res

\* the post-processing of the 'ts' branch: an array is partitioned, a str is
\* searched from the right
timezone_join(res, show_timezone, scalar) ==
    IF ~show_timezone \/ res.status # "ok" THEN res
    ELSE IF scalar THEN Ok(rfind_join(res.val, RFind(res.val, <<" ", "(">>)))
    ELSE partition_join(res)

\* the 'ts' branch with show_weekday and show_timezone given by the caller, on
\* a batch x or (scalar) on the one cell x[1] passed bare
f_ts_kw(x, params, scalar) ==
    timezone_join(unwrap(ntimestamp(x, params), scalar), params.show_timezone, scalar)

\* v % 1 != 0: true for every float that is no integer, nan and inf included
has_fraction(v) == v.k # "fin" \/ (v.m # 0 /\ v.e < 0)

\* x_val * 10000
times10000(v) == times100(times100(v))

\* growth_val formatted: one decimal when it has a fraction, str() otherwise
growth_str(growth_val) ==
    IF has_fraction(growth_val) THEN FormatPlain(growth_val, 1) ELSE str(growth_val)

growth_labels(x_val) ==
    IF eq0(x_val) \/ gt0(x_val) THEN <<"x", " ", "g", "r", "o", "w", "t", "h">>
    ELSE <<"x", " ", "d", "r", "o", "p">>

\* main_pct + " (" + growth_str + growth_labels + ", " + bps_fmt + " basis points)"
percent_join(main_pct, x_val, bps_fmt_arr) ==
    IF main_pct.status # "ok" THEN main_pct
    ELSE Ok([i \in DOMAIN x_val |->
                main_pct.val[i] \o <<" ", "(">> \o growth_str(abs(x_val[i]))
                    \o growth_labels(x_val[i]) \o <<",", " ">>
                    \o Replace(bps_fmt_arr.val[i], " ", <<>>) \o <<" ", "b", "a", "s", "i", "s", " ", "p", "o", "i", "n", "t", "s", ")">>])

\* x_val * 10000 formatted by nnumber with no decimals
bps_fmt(x_val) ==
    nnumber([i \in DOMAIN x_val |-> times10000(x_val[i])],
            [digits |-> 0, unit |-> CUSTOM, prefix |-> <<>>, suffix |-> <<>>,
             thousand_separator |-> <<",">>])

\* the 'percent' branch with its default parameters (is_ratio, one digit, plus sign)
f_percent(x) ==
    percent_join(npercent(x, [is_ratio |-> TRUE, digits |-> 1, show_plus_sign |-> TRUE,
                              show_growth_factor |-> FALSE, show_bps |-> FALSE]),
                 [i \in DOMAIN x |-> AsFloat(x[i])],
                 bps_fmt([i \in DOMAIN x |-> AsFloat(x[i])]))

\* f(x, format_type) without keyword overrides
f(x, format_type, dtype) ==
    LET ft == IF format_type = "None" THEN _infer_type(x, dtype) ELSE format_type
    IN  CASE ft = "day" ->
                \* the clock is not read when show_relative_day is off
                nday(x, [show_relative_day |-> FALSE, today |-> 0, elapsed |-> 0])
          [] ft = "date" -> ndate(x, [show_weekday |-> FALSE, show_month_year |-> FALSE])
          [] ft = "ts" -> f_ts(x)
          [] ft = "number" ->
                nnumber(x, [digits |-> 1, unit |-> CUSTOM, prefix |-> <<>>, suffix |-> <<>>,
                            thousand_separator |-> <<",">>])
          [] ft = "percent" -> f_percent(x)
          [] ft = "string" ->
                nstring(x, [case |-> TITLE, remove_specials |-> TRUE, keep_chars |-> <<>>,
                            ascii_only |-> TRUE])
          [] OTHER -> Raise("ValueError", "Unknown format_type")

\* ------------------------------------------------------------------ inputs

Seqs(S, n) == UNION {[1..k -> S] : k \in 0..n}

\* cells combined into batches of up to MaxLen elements: magnitudes that vote
\* for a unit, and cells that are no finite number
NumericPool == { Fin(FALSE, 0, 0), Fin(FALSE, 1, 1), Fin(FALSE, 15, 2), Fin(FALSE, 2, 3) }

MixedPool == { Fin(FALSE, 15, 2), NaN, NoneCell, TextCell }

PoolBatches == Seqs(NumericPool, MaxLen) \cup Seqs(MixedPool, MaxLen)

\* cells that are formatted on their own
WideCells ==
    NumericPool \cup MixedPool \cup
    { PosInf, NegInf, Fin(TRUE, 25, 5), Fin(FALSE, 15, 8), Fin(FALSE, 1, 9), Fin(FALSE, 1, 15),
      Fin(FALSE, 1234567, -3), Fin(TRUE, 15, 2), Fin(FALSE, 5, -1),
      Fin(FALSE, 999999999, 0), Fin(FALSE, 99999, -2), Fin(FALSE, 99994, -2) }

BOGUS == <<"b", "o", "g", "u", "s">>

Units == {AUTO, CUSTOM, BOGUS} \cup SetOf(labels)

PlainUnits == {AUTO, CUSTOM, BOGUS, <<>>, <<"K">>, <<"M", "n">>}

Separators == { <<",">>, <<".">>, <<"_">> }

Prefixes == { <<>>, <<"U", "S", "D", " ">> }

Suffixes == { <<>>, <<" ", "O", "n", "l", "y">> }

NumCfg(d, u, p, s, t) ==
    [digits |-> d, unit |-> u, prefix |-> p, suffix |-> s, thousand_separator |-> t]

\* unit modes and digit counts tried on every pool batch, default wrapping
PlainCfgs == {NumCfg(d, u, <<>>, <<>>, <<",">>) : d \in {0, 1}, u \in PlainUnits}

\* every option on every single cell
AllCfgs ==
    {NumCfg(d, u, p, s, t) : d \in {0, 1, 3}, u \in Units,
                             p \in Prefixes, s \in Suffixes, t \in Separators}

\* the batches of the documented scenarios
Decades == [i \in 1..9 |-> Fin(FALSE, 1, i)]
Fifteens == <<Fin(FALSE, 15, 2), Fin(FALSE, 15, 5), Fin(FALSE, 15, 8)>>

ScenarioCalls ==
    ({Decades, Fifteens} \X PlainCfgs)
        \cup {<<Fifteens, NumCfg(3, <<"B", "n">>, <<>>, <<>>, <<",">>)>>}

NumberCalls ==
    (PoolBatches \X PlainCfgs)
        \cup ({<<c>> : c \in WideCells} \X AllCfgs)
        \cup ScenarioCalls

\* 2023-01-03, the day the clock shows when the model starts
Today0 == 19358 + 2

\* 2023-01-01T00:00:00 in epoch seconds
Sec0 == 19358 * 86400

DatePool == {At(Today0), At(Today0 - 1), At(Today0 + 1), NaT, BadText}

WideDates ==
    DatePool \cup
    {At(Today0 + d) : d \in {1, 2, 8, 9, -2, -8, -9}} \cup
    {At(-5), At(-1), At(0), At(11016), At(19492), At(19716), At(20454)}

DateCfgs == [show_weekday : BOOLEAN, show_month_year : BOOLEAN]

DateCalls ==
    (Seqs(DatePool, MaxLen) \cup {<<c>> : c \in WideDates}) \X DateCfgs

\* the clock reading of the call is part of what the call sees
\* and so is whether midnight passes before the call returns
DayCfgs == [show_relative_day : BOOLEAN, today : {Today0, Today0 + 1}, elapsed : {0, 1}]

DayCalls ==
    (Seqs(DatePool, MaxLen) \cup {<<c>> : c \in WideDates}) \X DayCfgs

TsPool == {At(Sec0 + 12 * 3600 + 30 * 60 + 45), At(Sec0 + 86400 + 5), NaT, BadText}

WideTs ==
    TsPool \cup
    {At(Sec0 + 14 * 3600 + 30 * 60 + 5), At(Sec0 + 23 * 3600 + 59 * 60 + 59),
     At(Sec0 + 3600), At(-1)}

TsCfgs ==
    [show_weekday : BOOLEAN, show_date : BOOLEAN, show_hours : BOOLEAN,
     show_minutes : BOOLEAN, show_seconds : BOOLEAN, show_timezone : BOOLEAN]

TsPlainCfgs ==
    {c \in TsCfgs : c.show_hours /\ c.show_minutes /\ c.show_seconds /\ c.show_timezone}

\* one timestamp in every hour of a day
HourTs == {At(Sec0 + h * 3600 + 30 * 60 + 5) : h \in 0..23}

TsCalls ==
    (Seqs(TsPool, MaxLen) \X TsPlainCfgs) \cup ({<<c>> : c \in WideTs \cup HourTs} \X TsCfgs)

\* percent cells formatted on their own: ratios and whole percentages around
\* the boundaries 0, 1 and -1 of the growth factor, and cells that are no
\* finite number
PercentCells ==
    { Fin(FALSE, 0, 0), Fin(FALSE, 223, -3), Fin(FALSE, 223, -1), Fin(FALSE, 5, -2),
      Fin(FALSE, 1, -2), Fin(TRUE, 75, -4), Fin(FALSE, 1, 0), Fin(TRUE, 1, 0),
      Fin(TRUE, 401, -2), Fin(FALSE, 256, -2), Fin(FALSE, 5, -1), Fin(TRUE, 5, -1),
      Fin(FALSE, 1, -4), Fin(FALSE, 1, -5), Fin(FALSE, 1, 2), Fin(TRUE, 1, 2),
      NaN, PosInf, NoneCell, TextCell }

PercentPool == { Fin(FALSE, 223, -3), Fin(TRUE, 5, -1), NoneCell }

PercentCfgs ==
    [is_ratio : BOOLEAN, digits : {0, 1, 2}, show_plus_sign : BOOLEAN,
     show_growth_factor : BOOLEAN, show_bps : BOOLEAN]

PercentPlainCfgs == {c \in PercentCfgs : c.is_ratio /\ c.digits = 1 /\ c.show_plus_sign}

PercentCalls ==
    (Seqs(PercentPool, MaxLen) \X PercentPlainCfgs)
        \cup ({<<c>> : c \in PercentCells} \X PercentCfgs)

\* texts of the documented scenarios, with mixed case, special characters,
\* runs of whitespace and a non-ASCII letter
TextCells ==
    { StrCell(<<"t", "E", "s", "t", " ", "C", "a", "s", "E">>), StrCell(<<"H", "e", "l", "l", "o", " ", "@", "W", "o", "r", "l", "d", "!", " ", "1", "2", "3">>), StrCell(<<" ", "s", "c", "a", "l", "a", "r", " ", " ", "I", "n", "p", "u", "t", " ">>),
      StrCell(<<"a", "l", "l", " ", "M", "o", "d", "e", "l", "s", " ", "a", "r", "e", " ", "W", "r", "o", "n", "g">>), StrCell(<<"e", " ", "e_acute">>), StrCell(<<>>) }

TextPool == { StrCell(<<"t", "E", "s", "t", " ", "C", "a", "s", "E">>), StrCell(<<"a", " ", "b">>) }

CAMEL == <<"c", "a", "m", "e", "l">>

Cases == { <<>>, LOWER, UPPER, TITLE, START, INITCAP, CAMEL }

StringCfgs ==
    [case : Cases, remove_specials : BOOLEAN, keep_chars : { <<>>, <<"!">> },
     ascii_only : BOOLEAN]

StringPlainCfgs == {c \in StringCfgs : ~c.remove_specials /\ c.keep_chars = <<>> /\ ~c.ascii_only}

StringCalls ==
    (Seqs(TextPool, MaxLen) \X StringPlainCfgs)
        \cup ({<<c>> : c \in TextCells} \X StringCfgs)

\* inputs of f: lists of numbers, missing elements and texts, and datetime64
\* arrays in days and in seconds
FLists ==
    Seqs({Fin(FALSE, 1, 3), Fin(FALSE, 2, 3), NoneCell}, MaxLen)
        \cup Seqs(TextPool, 2)
        \cup {<<c>> : c \in {Fin(FALSE, 1345, 9), Fin(FALSE, 9, 0), Fin(TRUE, 5, -1), NaN, TextCell}}

FCalls ==
    (FLists \X [format_type : {"None", "number", "percent", "string", "invalid"},
                dtype : {LIST}])
        \cup (Seqs({At(Today0), NaT}, 2)
                 \X [format_type : {"None", "day", "date", "invalid"}, dtype : {DT_D}])
        \cup (Seqs({At(Sec0 + 12 * 3600 + 30 * 60 + 45), NaT}, 2)
                 \X [format_type : {"None", "ts", "invalid"}, dtype : {DT_S}])

\* inputs of f(x, 'ts', show_weekday=..., show_timezone=...): a bare timestamp
\* or a batch of timestamps, valid or not-a-time
FTsParams ==
    {c \in TsCfgs : c.show_date /\ c.show_hours /\ c.show_minutes /\ c.show_seconds}

FTsCalls ==
    ({<<c>> : c \in {At(Sec0 + 12 * 3600 + 30 * 60 + 45), NaT}} \X FTsParams \X {TRUE})
        \cup (Seqs({At(Sec0 + 12 * 3600 + 30 * 60 + 45), NaT}, 2) \X FTsParams \X {FALSE})

\* ------------------------------------------------------------------ machine

Init ==
    /\ pc = "idle"
    /\ op = "none"
    /\ arg = <<>>
    /\ cfg = <<>>
    /\ out = NoResult

CallNNumber ==
    /\ pc = "idle"
    /\ \E call \in NumberCalls :
          /\ arg' = call[1]
          /\ cfg' = call[2]
          /\ out' = nnumber(call[1], call[2])
    /\ op' = "nnumber"
    /\ pc' = "done"

CallNDate ==
    /\ pc = "idle"
    /\ \E call \in DateCalls :
          /\ arg' = call[1]
          /\ cfg' = call[2]
          /\ out' = ndate(call[1], call[2])
    /\ op' = "ndate"
    /\ pc' = "done"

CallNDay ==
    /\ pc = "idle"
    /\ \E call \in DayCalls :
          /\ arg' = call[1]
          /\ cfg' = call[2]
          /\ out' = nday(call[1], call[2])
    /\ op' = "nday"
    /\ pc' = "done"

CallNTimestamp ==
    /\ pc = "idle"
    /\ \E call \in TsCalls :
          /\ arg' = call[1]
          /\ cfg' = call[2]
          /\ out' = ntimestamp(call[1], call[2])
    /\ op' = "ntimestamp"
    /\ pc' = "done"

CallNPercent ==
    /\ pc = "idle"
    /\ \E call \in PercentCalls :
          /\ arg' = call[1]
          /\ cfg' = call[2]
          /\ out' = npercent(call[1], call[2])
    /\ op' = "npercent"
    /\ pc' = "done"

CallNString ==
    /\ pc = "idle"
    /\ \E call \in StringCalls :
          /\ arg' = call[1]
          /\ cfg' = call[2]
          /\ out' = nstring(call[1], call[2])
    /\ op' = "nstring"
    /\ pc' = "done"

CallF ==
    /\ pc = "idle"
    /\ \E call \in FCalls :
          /\ arg' = call[1]
          /\ cfg' = call[2]
          /\ out' = f(call[1], call[2].format_type, call[2].dtype)
    /\ op' = "f"
    /\ pc' = "done"

CallFTs ==
    /\ pc = "idle"
    /\ \E call \in FTsCalls :
          /\ arg' = call[1]
          /\ cfg' = [params |-> call[2], scalar |-> call[3]]
          /\ out' = f_ts_kw(call[1], call[2], call[3])
    /\ op' = "f_ts"
    /\ pc' = "done"

\* the call has returned (or raised); nothing survives it
Return ==
    /\ pc = "done"
    /\ pc' = "idle"
    /\ op' = "none"
    /\ arg' = <<>>
    /\ cfg' = <<>>
    /\ out' = NoResult

Next ==
    \/ CallNNumber \/ CallNDate \/ CallNDay \/ CallNTimestamp
    \/ CallNPercent \/ CallNString \/ CallF \/ CallFTs
    \/ Return

Spec == Init /\ [][Next]_vars

\* ------------------------------------------------------------------ properties

Done(o) == pc = "done" /\ op = o

NumOk == Done("nnumber") /\ out.status = "ok"

DateOps == {"ndate", "nday", "ntimestamp"}

K_ == <<"K">>
Mn_ == <<"M", "n">>

\* the bucket a value belongs to, by the thresholds 1e3, 1e6, 1e9, 1e12
ExpectedBucket(v) ==
    IF ~isfinite(v) \/ v.m = 0 THEN 0
    ELSE Cardinality({j \in 1..4 : ~AbsLess(v, Fin(FALSE, 1, 3 * j))})

\* the bucket of a fixed unit label
ExpectedFixed(unit) ==
    CASE unit = <<>> -> 0
      [] unit = <<"K">> -> 1
      [] unit = <<"M", "n">> -> 2
      [] unit = <<"B", "n">> -> 3
      [] unit = <<"T", "n">> -> 4

\* how many members of the collection xs (a function) fall in bucket b
Votes(xs, b) ==
    Cardinality({j \in DOMAIN xs : isfinite(xs[j]) /\ xs[j].m # 0 /\ ExpectedBucket(xs[j]) = b})

\* the smallest bucket with the most votes (0 when nobody votes)
Winner(xs) ==
    CHOOSE b \in 0..4 :
        /\ \A c \in 0..4 : Votes(xs, c) <= Votes(xs, b)
        /\ \A c \in 0..4 : Votes(xs, c) = Votes(xs, b) => b <= c

Floats(x) == [i \in DOMAIN x |-> AsFloat(x[i])]

\* the distinct floats of a batch, as a function from themselves
DistinctFloats(x) == [v \in SetOf(Floats(x)) |-> v]

\* the number as Python groups it, with ',' and '.' mapped position by position
\* to the requested grouping character and the decimal mark that goes with it
NumberText(v, b, c) ==
    LET g == FormatFixed(Scale(v, b), c.digits)
        sep == c.thousand_separator[1]
        mark == IF sep = "." THEN "," ELSE "."
    IN  [p \in DOMAIN g |-> IF g[p] = "," THEN sep ELSE IF g[p] = "." THEN mark ELSE g[p]]

UnitText(b) == IF labels[b + 1] # <<>> THEN <<" ">> \o labels[b + 1] ELSE <<>>

\* prefix + grouped number + unit + suffix
Rendered(v, b, c) == c.prefix \o NumberText(v, b, c) \o UnitText(b) \o c.suffix

\* the bucket position i of a batch is rendered in, per unit mode
ExpectedIdx(x, i, c) ==
    IF c.unit = AUTO THEN Winner(DistinctFloats(x))
    ELSE IF c.unit = CUSTOM THEN ExpectedBucket(AsFloat(x[i]))
    ELSE ExpectedFixed(c.unit)

InvalidOnlyAtInvalid ==
    pc = "done" /\ op \in DateOps =>
      /\ out.status = "ok"
      /\ \A i \in DOMAIN arg :
            /\ arg[i].k # "at" => out.val[i] = NAT_STR
            /\ arg[i].k = "at" =>
                  /\ out.val[i] # NAT_STR
                  /\ op = "ndate" => out.val[i] = ndate(<<arg[i]>>, cfg).val[1]
                  /\ op = "nday" => out.val[i] = nday(<<arg[i]>>, cfg).val[1]
                  /\ op = "ntimestamp" => out.val[i] = ntimestamp(<<arg[i]>>, cfg).val[1]

\* C4: a nan, +inf or -inf element of nnumber renders as the bare token in
\* every configuration: no unit label, no prefix, no suffix.
NonFiniteBareToken ==
    NumOk =>
      \A i \in DOMAIN arg :
          LET v == AsFloat(arg[i])
          IN  /\ v.k = "nan" => out.val[i] = <<"n", "a", "n">>
              /\ v.k = "inf" /\ ~v.neg => out.val[i] = <<"i", "n", "f">>
              /\ v.k = "inf" /\ v.neg => out.val[i] = <<"-", "i", "n", "f">>

\* C5: with unit='custom' every value is rendered in its own bucket
\* clamp(floor(log10(|v|)/3), 0, 4): scaled by that bucket's factor and
\* followed by that bucket's label; zero and non-finite values are in bucket 0.
CustomBucketPerValue ==
    NumOk /\ cfg.unit = CUSTOM =>
      \A i \in DOMAIN arg :
          out.val[i] = Rendered(AsFloat(arg[i]), ExpectedBucket(AsFloat(arg[i])), cfg)

CustomBucketPerValueWitness ==
    /\ NumOk
    /\ cfg.unit = CUSTOM
    /\ cfg.digits = 1
    /\ arg = Decades
    /\ out.val = << <<"1", "0", ".", "0">>, <<"1", "0", "0", ".", "0">>, <<"1", ".", "0", " ", "K">>, <<"1", "0", ".", "0", " ", "K">>, <<"1", "0", "0", ".", "0", " ", "K">>,
                    <<"1", ".", "0", " ", "M", "n">>, <<"1", "0", ".", "0", " ", "M", "n">>, <<"1", "0", "0", ".", "0", " ", "M", "n">>, <<"1", ".", "0", " ", "B", "n">> >>

\* C6: with a fixed unit label every finite value is scaled by that unit's
\* factor, whatever its magnitude, and carries that label.
FixedUnitForAll ==
    NumOk /\ unit_in_labels(cfg.unit) =>
      /\ \A i \in DOMAIN arg :
            isfinite(AsFloat(arg[i])) =>
                out.val[i] = Rendered(AsFloat(arg[i]), ExpectedFixed(cfg.unit), cfg)
      /\ arg = Fifteens /\ cfg.unit = K_ /\ cfg.digits = 1 =>
            out.val[3] = <<"1", ",", "5", "0", "0", ",", "0", "0", "0", ".", "0", " ", "K">>

FixedUnitForAllWitness ==
    /\ NumOk
    /\ cfg.unit = Mn_
    /\ cfg.digits = 1
    /\ arg = Fifteens
    /\ out.val = << <<"0", ".", "0", " ", "M", "n">>, <<"1", ".", "5", " ", "M", "n">>, <<"1", ",", "5", "0", "0", ".", "0", " ", "M", "n">> >>

SeparatorKeepsDecimalMark ==
    NumOk /\ cfg.thousand_separator # <<",">> =>
      \A i \in DOMAIN arg :
          isfinite(AsFloat(arg[i])) =>
              LET b == ExpectedIdx(arg, i, cfg)
                  g == FormatFixed(Scale(AsFloat(arg[i]), b), cfg.digits)
                  n == SubSeq(out.val[i], Len(cfg.prefix) + 1, Len(cfg.prefix) + Len(g))
                  sep == cfg.thousand_separator[1]
                  mark == IF sep = "." THEN "," ELSE "."
              IN  /\ Len(n) = Len(g)
                  /\ mark # sep
                  /\ \A p \in DOMAIN g : g[p] = "," <=> n[p] = sep
                  /\ CountChar(n, mark) = (IF cfg.digits = 0 THEN 0 ELSE 1)
                  /\ cfg.digits > 0 => n[Len(n) - cfg.digits] = mark
                  /\ \A p \in DOMAIN g : g[p] \notin {",", "."} => n[p] = g[p]

SeparatorKeepsDecimalMarkWitness ==
    /\ NumOk
    /\ cfg.thousand_separator = <<".">>
    /\ cfg.unit = K_
    /\ cfg.digits = 1
    /\ cfg.prefix = <<>>
    /\ cfg.suffix = <<>>
    /\ arg = <<Fin(FALSE, 1, 9)>>
    /\ out.val[1] = <<"1", ".", "0", "0", "0", ".", "0", "0", "0", ",", "0", " ", "K">>

\* C9: a finite value's string is prefix + number + unit + suffix: the string
\* formatted without prefix and suffix, which ends with ' ' + label when the
\* bucket has a label and is the number alone otherwise, wrapped as a whole.
WrapAfterUnit ==
    NumOk =>
      LET unwrapped == nnumber(arg, [cfg EXCEPT !.prefix = <<>>, !.suffix = <<>>]).val
          auto == Winner(DistinctFloats(arg))
      IN  \A i \in DOMAIN arg :
              isfinite(AsFloat(arg[i])) =>
                  LET b == IF cfg.unit = AUTO THEN auto ELSE ExpectedIdx(arg, i, cfg)
                      bare == unwrapped[i]
                  IN  /\ out.val[i] = cfg.prefix \o bare \o cfg.suffix
                      /\ bare = NumberText(AsFloat(arg[i]), b, cfg) \o UnitText(b)
                      /\ labels[b + 1] # <<>> => IsSuffixOf(<<" ">> \o labels[b + 1], bare)
                      /\ cfg.prefix = <<>> /\ cfg.suffix = <<>> => out.val[i] = bare

WrapAfterUnitWitness ==
    /\ NumOk
    /\ cfg.unit = CUSTOM
    /\ cfg.digits = 1
    /\ cfg.thousand_separator = <<",">>
    /\ cfg.prefix = <<"U", "S", "D", " ">>
    /\ cfg.suffix = <<" ", "O", "n", "l", "y">>
    /\ arg = <<Fin(FALSE, 1234567, -3)>>
    /\ out.val[1] = <<"U", "S", "D", " ", "1", ".", "2", " ", "K", " ", "O", "n", "l", "y">>

\* C10: an unrecognized unit keyword makes nnumber fail with the "Invalid unit"
\* configuration error for every batch, before any element is looked at.
InvalidUnitFailsFirst ==
    Done("nnumber") /\ cfg.unit # AUTO /\ cfg.unit # CUSTOM /\ ~unit_in_labels(cfg.unit) =>
      /\ out.status = "ValueError"
      /\ out.msg = "Invalid unit"
      /\ out.val = <<>>

LongDate(days) ==
    LET c == Civil(days)
    IN  months_full[c.m + 1] \o <<" ">> \o ZeroPad(c.d, 2) \o <<",", " ">> \o ZeroPad(c.y, 4)

\* the weekday name of an epoch day
WeekdayOf(days) == weekday_labels[((days + 3) % 7) + 1]

\* C17: ndate renders a valid date of a converted batch as "<Mon> <DD>, <YYYY>",
\* followed by " (<Weekday>)" with show_weekday; with show_month_year it
\* renders "<Mon>'<YY>" and no weekday, whatever show_weekday says.
DateForms ==
    Done("ndate") /\ IsDatetime64(arg) =>
      \A i \in DOMAIN arg :
          arg[i].k = "at" =>
            LET t == arg[i].t
                c == Civil(t)
            IN  /\ cfg.show_month_year =>
                      out.val[i] = months_full[c.m + 1] \o <<"'">> \o ZeroPad(c.y % 100, 2)
                /\ ~cfg.show_month_year /\ ~cfg.show_weekday => out.val[i] = LongDate(t)
                /\ ~cfg.show_month_year /\ cfg.show_weekday =>
                      out.val[i] = LongDate(t) \o <<" ", "(">> \o WeekdayOf(t) \o <<")">>

DateFormsWitness ==
    /\ Done("ndate")
    /\ arg = <<At(19492)>>
    /\ cfg.show_month_year
    /\ cfg.show_weekday
    /\ out.val = << <<"M", "a", "y", "'", "2", "3">> >>

\* C18: ntimestamp renders a valid timestamp of a converted batch as the date
\* part (if show_date), the 12-hour hour "HHH" (if show_hours), " MMM" (if
\* show_minutes), " SSS" (if show_seconds), the AM/PM marker in every
\* combination of the flags, then " (<Weekday>)" (if show_weekday), in this
\* order and with nothing for a component whose flag is off.
TimestampOrder ==
    Done("ntimestamp") /\ IsDatetime64(arg) =>
      \A i \in DOMAIN arg :
          arg[i].k = "at" =>
            LET t == arg[i].t
                day == t \div 86400
                sod == t % 86400
                h == sod \div 3600
                D == IF cfg.show_date THEN LongDate(day) \o <<" ">> ELSE <<>>
                H == IF cfg.show_hours THEN ZeroPad(((h + 11) % 12) + 1, 2) \o <<"H">> ELSE <<>>
                M == IF cfg.show_minutes
                     THEN <<" ">> \o ZeroPad((sod % 3600) \div 60, 2) \o <<"M">> ELSE <<>>
                S == IF cfg.show_seconds THEN <<" ">> \o ZeroPad(sod % 60, 2) \o <<"S">> ELSE <<>>
                A == IF h >= 12 THEN <<" ", "P", "M">> ELSE <<" ", "A", "M">>
                W == IF cfg.show_weekday THEN <<" ", "(">> \o WeekdayOf(day) \o <<")">> ELSE <<>>
            IN  out.val[i] = D \o H \o M \o S \o A \o W

TimestampOrderWitness ==
    /\ Done("ntimestamp")
    /\ arg = <<At(Sec0 + 12 * 3600 + 30 * 60 + 45)>>
    /\ cfg.show_date /\ cfg.show_hours /\ cfg.show_minutes /\ cfg.show_seconds
    /\ cfg.show_weekday
    /\ out.val = << <<"J", "a", "n", " ", "0", "1", ",", " ", "2", "0", "2", "3", " ", "1", "2", "H", " ", "3", "0", "M", " ", "4", "5", "S", " ", "P", "M", " ", "(", "S", "u", "n", ")">> >>

\* C19: nday with show_relative_day puts before the weekday name the prefix of
\* diff = today - date: "Today, " for 0, "Yesterday, " for 1, "Last " for 2..8,
\* "Tomorrow, " for -1, "Coming " for -8..-2 and nothing for any other diff;
\* without show_relative_day the output is the weekday name alone.
RelativeDayPrefix ==
    Done("nday") /\ IsDatetime64(arg) =>
      \A i \in DOMAIN arg :
          arg[i].k = "at" =>
            LET diff == cfg.today - arg[i].t
                prefix ==
                    CASE diff = 0 -> <<"T", "o", "d", "a", "y", ",", " ">>
                      [] diff = 1 -> <<"Y", "e", "s", "t", "e", "r", "d", "a", "y", ",", " ">>
                      [] diff \in 2..8 -> <<"L", "a", "s", "t", " ">>
                      [] diff = -1 -> <<"T", "o", "m", "o", "r", "r", "o", "w", ",", " ">>
                      [] diff \in (-8)..(-2) -> <<"C", "o", "m", "i", "n", "g", " ">>
                      [] OTHER -> <<>>
            IN  out.val[i] = (IF cfg.show_relative_day THEN prefix ELSE <<>>)
                                 \o WeekdayOf(arg[i].t)

RelativeDayPrefixWitness ==
    /\ Done("nday")
    /\ cfg.show_relative_day
    /\ cfg.today = Today0
    /\ arg = <<At(Today0 - 8)>>
    /\ out.val = << <<"L", "a", "s", "t", " ", "M", "o", "n">> >>

PctOk == Done("npercent") /\ out.status = "ok"

\* the value on the percentage scale: a ratio is multiplied by 100
PctOf(v) == IF cfg.is_ratio /\ v.k = "fin" /\ v.m # 0 THEN [v EXCEPT !.e = @ + 2] ELSE v

\* the position of the first occurrence of a character (0 when absent)
FirstIndex(s, ch) ==
    IF \E j \in DOMAIN s : s[j] = ch
    THEN CHOOSE j \in DOMAIN s : s[j] = ch /\ \A h \in 1..(j - 1) : s[h] # ch
    ELSE 0

\* |p| >= 100, by integer arithmetic on mantissa and exponent
AbsAtLeast100(p) ==
    /\ p.m # 0
    /\ IF p.e >= 0 THEN p.m * Pow10(p.e) >= 100 ELSE p.m >= 100 * Pow10(-p.e)

\* C13: the core string of a finite value is the percentage-scale value p
\* (the input times 100 when is_ratio) rounded to exactly d decimals, with '+'
\* in front exactly when show_plus_sign is set and p > 0, '-' in front exactly
\* when p < 0, and '%' behind; without annotations it is the whole output.
PercentCore ==
    PctOk =>
      \A i \in DOMAIN arg :
          arg[i].k = "fin" =>
            LET p == PctOf(arg[i])
                s == out.val[i]
                n == FirstIndex(s, "%")
                core == SubSeq(s, 1, n - 1)
                signed == core # <<>> /\ Head(core) \in {"+", "-"}
                body == IF signed THEN Tail(core) ELSE core
                d == cfg.digits
                ds == SelectSeq(body, LAMBDA ch : ch # ".")
                k == p.e + d
            IN  /\ n > 1
                /\ (Head(core) = "+") <=> (cfg.show_plus_sign /\ p.m # 0 /\ ~p.neg)
                /\ (Head(core) = "-") <=> (p.m # 0 /\ p.neg)
                /\ Len(ds) = Len(body) - (IF d > 0 THEN 1 ELSE 0)
                /\ d > 0 => Len(body) > d + 1 /\ body[Len(body) - d] = "."
                /\ ds # <<>>
                /\ \A j \in DOMAIN ds : \E q \in DOMAIN DigitChars : DigitChars[q] = ds[j]
                /\ IF k >= 0 THEN ParseInt(ds) = p.m * Pow10(k)
                   ELSE LET w == Pow10(-k)
                            diff == ParseInt(ds) * w - p.m
                        IN  2 * diff <= w /\ -2 * diff <= w
                /\ ~cfg.show_growth_factor /\ ~cfg.show_bps => n = Len(s)

PercentCoreWitness ==
    /\ PctOk
    /\ arg = <<Fin(FALSE, 223, -3)>>
    /\ cfg.is_ratio /\ cfg.digits = 1 /\ cfg.show_plus_sign
    /\ ~cfg.show_growth_factor /\ ~cfg.show_bps
    /\ out.val = << <<"+", "2", "2", ".", "3", "%">> >>

\* C14: with show_growth_factor the annotation that follows the core string of
\* a finite value is, for g = p / 100: "(Flat)" when g = 0, "(Growth)" when
\* 0 < g < 1, "(Drop)" when -1 < g < 0, "(<g to 1 decimal>x Growth)" when
\* g >= 1 and "(<|g| to 1 decimal>x Drop)" when g <= -1.
GrowthForms ==
    PctOk /\ cfg.show_growth_factor =>
      \A i \in DOMAIN arg :
          arg[i].k = "fin" =>
            LET p == PctOf(arg[i])
                s == out.val[i]
                n == FirstIndex(s, "%")
                rest == SubSeq(s, n + 1, Len(s))
                mult == FormatPlain([p EXCEPT !.neg = FALSE, !.e = @ - 2], 1)
                form ==
                    CASE p.m = 0 -> <<"F", "l", "a", "t">>
                      [] p.m # 0 /\ ~p.neg /\ ~AbsAtLeast100(p) -> <<"G", "r", "o", "w", "t", "h">>
                      [] p.m # 0 /\ p.neg /\ ~AbsAtLeast100(p) -> <<"D", "r", "o", "p">>
                      [] ~p.neg /\ AbsAtLeast100(p) -> mult \o <<"x", " ", "G", "r", "o", "w", "t", "h">>
                      [] p.neg /\ AbsAtLeast100(p) -> mult \o <<"x", " ", "D", "r", "o", "p">>
            IN  IsPrefixOf(<<" ", "(">> \o form \o <<")">>, rest)

GrowthFormsWitness ==
    /\ PctOk
    /\ arg = <<Fin(TRUE, 1, 0)>>
    /\ cfg.is_ratio /\ cfg.digits = 1 /\ cfg.show_growth_factor /\ ~cfg.show_bps
    /\ out.val = << <<"-", "1", "0", "0", ".", "0", "%", " ", "(", "1", ".", "0", "x", " ", "D", "r", "o", "p", ")">> >>

\* C15: with show_bps the output of a finite value ends with "(<bps> bps)",
\* where <bps> is p * 100 rounded to an integer with '+' or '-' in front, and
\* "0" without a sign when p is exactly zero.
BpsForm ==
    PctOk /\ cfg.show_bps =>
      \A i \in DOMAIN arg :
          arg[i].k = "fin" =>
            LET p == PctOf(arg[i])
                k == p.e + 2
                n == IF k >= 0 THEN p.m * Pow10(k) ELSE RoundScaled(p.m, k)
                bps == IF p.m = 0 THEN <<"0">>
                       ELSE (IF p.neg THEN <<"-">> ELSE <<"+">>) \o Digits(n)
            IN  IsSuffixOf(<<" ", "(">> \o bps \o <<" ", "b", "p", "s", ")">>, out.val[i])

BpsFormWitness ==
    /\ PctOk
    /\ arg = <<Fin(TRUE, 75, -4)>>
    /\ cfg.is_ratio /\ cfg.digits = 2 /\ cfg.show_bps /\ ~cfg.show_growth_factor
    /\ IsPrefixOf(<<"-", "0", ".", "7", "5", "%", " ", "(", "-", "7", "5", " ", "b", "p", "s", ")">>, out.val[1])
    /\ IsSuffixOf(<<" ", "(", "-", "7", "5", " ", "b", "p", "s", ")">>, out.val[1])

\* C16: the output is the percent string followed by the requested
\* annotations, each exactly once and in its own parentheses: as many
\* parentheses as annotations requested, at most one basis-points annotation,
\* and the percent string alone when none is requested.
AnnotationsOnce ==
    PctOk =>
      \A i \in DOMAIN arg :
          LET s == out.val[i]
              wanted == (IF cfg.show_growth_factor THEN 1 ELSE 0)
                            + (IF cfg.show_bps THEN 1 ELSE 0)
          IN  /\ CountChar(s, "(") = wanted
              /\ CountChar(s, ")") = wanted
              /\ CountChar(s, "b") = (IF cfg.show_bps THEN 1 ELSE 0)
              /\ wanted = 0 => s[Len(s)] = "%"

\* C11: a case keyword of nstring that is none of lower, upper, title, start,
\* initcap (and not absent) makes the call fail; it never returns an output.
UnknownCaseRejected ==
    Done("nstring") /\ cfg.case \notin {<<>>, LOWER, UPPER, TITLE, START, INITCAP} =>
        out.status # "ok"

\* C20: f without a format_type on a list that mixes numbers and missing
\* elements formats it as numbers: the numeric elements as nnumber renders
\* them by default and every missing element as "nan".
MixedInfersNumber ==
    /\ Done("f")
    /\ cfg.format_type = "None"
    /\ cfg.dtype = LIST
    /\ \A i \in DOMAIN arg : arg[i].k \in {"fin", "none"}
    /\ \E i \in DOMAIN arg : arg[i].k = "fin"
    /\ \E i \in DOMAIN arg : arg[i].k = "none"
    => /\ out.status = "ok"
       /\ \A i \in DOMAIN arg :
             /\ arg[i].k = "none" => out.val[i] = <<"n", "a", "n">>
             /\ arg[i].k = "fin" =>
                   out.val[i] = FormatFixed(Scale(arg[i], ExpectedBucket(arg[i])), 1)
                                    \o UnitText(ExpectedBucket(arg[i]))

\* C21: f with kind 'ts' on a bare timestamp returns element 0 of what it
\* returns on the one-element batch holding that timestamp, for a valid
\* timestamp and for not-a-time and for every combination of show_weekday and
\* show_timezone; with show_timezone both carry " IST" immediately before the
\* weekday parenthetical.
ScalarIsBatchOfOne ==
    Done("f_ts") /\ cfg.scalar =>
      LET batch == f_ts_kw(arg, cfg.params, FALSE)
      IN  /\ out.status = "ok"
          /\ batch.status = "ok"
          /\ out.val = batch.val[1]
          /\ cfg.params.show_timezone /\ cfg.params.show_weekday /\ arg[1].k = "at" =>
                \E j \in DOMAIN out.val :
                    SubSeq(out.val, j, j + 5) = <<" ", "I", "S", "T", " ", "(">>

\* the weekday of a civil date by Zeller's congruence, as an index into Mon..Sun
Zeller(c) ==
    LET mm == IF c.m < 3 THEN c.m + 12 ELSE c.m
        yy == IF c.m < 3 THEN c.y - 1 ELSE c.y
        K == yy % 100
        J == yy \div 100
        h == (c.d + ((13 * (mm + 1)) \div 5) + K + (K \div 4) + (J \div 4) + 5 * J) % 7
    IN  (h + 5) % 7

\* the floored remainder of n by 7
FlooredMod7(n) == n - 7 * (n \div 7)

\* C22: the weekday name nday gives a valid date is table[(epoch_day + 3) mod 7]
\* over Mon..Sun with the floored remainder, an index in 0..6 also before 1970;
\* it is the weekday of the civil date, epoch day 0 is "Thu", the date 7 days
\* later has the same name and the date 1 day later the cyclically next name.
WeekdayFromEpochDay ==
    Done("nday") /\ ~cfg.show_relative_day /\ IsDatetime64(arg) =>
      \A i \in DOMAIN arg :
          arg[i].k = "at" =>
            LET t == arg[i].t
                idx == FlooredMod7(t + 3)
            IN  /\ idx \in 0..6
                /\ out.val[i] = weekday_labels[idx + 1]
                /\ idx = Zeller(Civil(t))
                /\ nday(<<At(t + 7)>>, cfg).val[1] = out.val[i]
                /\ nday(<<At(t + 1)>>, cfg).val[1] = weekday_labels[((idx + 1) % 7) + 1]
                /\ t = 0 => out.val[i] = <<"T", "h", "u">>
                /\ t = 19358 => out.val[i] = <<"S", "u", "n">>
                /\ t = 19716 => out.val[i] = <<"M", "o", "n">>
                /\ t = 20454 => out.val[i] = <<"T", "h", "u">>

WeekdayFromEpochDayWitness ==
    /\ Done("nday")
    /\ ~cfg.show_relative_day
    /\ arg = <<At(-5)>>
    /\ FlooredMod7(arg[1].t + 3) = 5
    /\ out.val = << <<"S", "a", "t">> >>

\* the displayed hour and the AM/PM marker of a timestamp string that shows hours
HourPair(s) ==
    LET n == FirstIndex(s, "H")
    IN  <<SubSeq(s, n - 2, n - 1), Find(s, <<" ", "P", "M">>) > 0, Find(s, <<" ", "A", "M">>) > 0>>

\* C23: with show_hours the displayed hour of a valid timestamp in hour h is 12
\* for h = 0, h for 1..12 and h - 12 for 13..23, two digits in "01".."12"; the
\* marker is PM exactly when h >= 12 and AM otherwise; the pair of displayed
\* hour and marker differs between any two hours of the day.
TwelveHourClock ==
    Done("ntimestamp") /\ cfg.show_hours /\ IsDatetime64(arg) =>
      \A i \in DOMAIN arg :
          arg[i].k = "at" =>
            LET t == arg[i].t
                h == (t % 86400) \div 3600
                shown == IF h = 0 THEN 12 ELSE IF h <= 12 THEN h ELSE h - 12
                pair == HourPair(out.val[i])
            IN  /\ shown \in 1..12
                /\ Len(pair[1]) = 2
                /\ pair[1] = ZeroPad(shown, 2)
                /\ pair[2] <=> h >= 12
                /\ pair[3] <=> h < 12
                /\ \A g \in 0..23 :
                      g # h =>
                        HourPair(ntimestamp(<<At(t + (g - h) * 3600)>>, cfg).val[1]) # pair

TwelveHourClockWitness ==
    /\ Done("ntimestamp")
    /\ arg = <<At(Sec0 + 14 * 3600 + 30 * 60 + 5)>>
    /\ ~cfg.show_date /\ cfg.show_hours /\ cfg.show_minutes /\ cfg.show_seconds
    /\ ~cfg.show_weekday
    /\ out.val = << <<"0", "2", "H", " ", "3", "0", "M", " ", "0", "5", "S", " ", "P", "M">> >>

\* the string starts with "Today, "
SaysToday(s) == IsPrefixOf(<<"T", "o", "d", "a", "y", ",", " ">>, s)

\* C24: nday with show_relative_day reads "today" once, before any element is
\* classified: every element is labelled against that one reading also when
\* midnight passes while the call runs, so two elements holding the same date
\* get the same label and two elements one day apart never both get "Today, ".
TodayReadOnce ==
    Done("nday") /\ cfg.show_relative_day /\ IsDatetime64(arg) =>
      \A i \in DOMAIN arg :
          arg[i].k = "at" =>
            /\ out.val[i] = DayString(arg[i].t, TRUE, cfg.today)
            /\ \A j \in DOMAIN arg :
                  arg[j].k = "at" =>
                    /\ arg[j].t = arg[i].t => out.val[j] = out.val[i]
                    /\ arg[j].t = arg[i].t + 1 =>
                          ~(SaysToday(out.val[i]) /\ SaysToday(out.val[j]))

TodayReadOnceWitness ==
    /\ Done("nday")
    /\ cfg.show_relative_day
    /\ cfg.today = Today0
    /\ cfg.elapsed = 1
    /\ arg = <<At(Today0), At(Today0 + 1), At(Today0)>>
    /\ out.val = << <<"T", "o", "d", "a", "y", ",", " ", "T", "u", "e">>, <<"T", "o", "m", "o", "r", "r", "o", "w", ",", " ", "W", "e", "d">>, <<"T", "o", "d", "a", "y", ",", " ", "T", "u", "e">> >>

\* no leading space and no two adjacent spaces
SingleSpaced(s) ==
    /\ s # <<>> => s[1] # " "
    /\ \A j \in 1..(Len(s) - 1) : ~(s[j] = " " /\ s[j + 1] = " ")

\* C25: for every valid timestamp and each of the 32 combinations of
\* show_date, show_hours, show_minutes, show_seconds and show_weekday the
\* string ntimestamp returns has no leading space and no two adjacent spaces.
TimestampSingleSpaced ==
    Done("ntimestamp") /\ IsDatetime64(arg) =>
      \A i \in DOMAIN arg : arg[i].k = "at" => SingleSpaced(out.val[i])

\* the integer part of the one number a rendered string holds: its digit
\* characters without the last `digits` of them
ShownInteger(s, digits) ==
    LET ds == SelectSeq(s, LAMBDA ch : \E q \in DOMAIN DigitChars : DigitChars[q] = ch)
    IN  ParseInt(SubSeq(ds, 1, Len(ds) - digits))

\* C26: with unit='custom' the number shown before the unit label of a finite
\* value with 1 <= |v| < 1e15, after rounding to the requested decimals, is at
\* least 1 and strictly below 1000 in absolute value.
ShownBelowThousand ==
    NumOk /\ cfg.unit = CUSTOM =>
      \A i \in DOMAIN arg :
          /\ arg[i].k = "fin"
          /\ arg[i].m # 0
          /\ ~AbsLess(arg[i], Fin(FALSE, 1, 0))
          /\ AbsLess(arg[i], Fin(FALSE, 1, 15))
          => /\ ShownInteger(out.val[i], cfg.digits) >= 1
             /\ ShownInteger(out.val[i], cfg.digits) < 1000

====
